---- MODULE Spec2Model ----
(***************************************************************************)
(* Model of pydantic-core's per-container validation bookkeeping           *)
(* (IterableValidationChecks), its two generic iteration drivers           *)
(* (src/src/input/iterator.rs) and the Set validator                       *)
(* (src/src/validators/set.rs).                                            *)
(***************************************************************************)
EXTENDS Integers, Sequences, FiniteSets, TLC

\* ------------------------------------------------------------------ bounds
\* Longest host iterator / input sequence explored.
MaxLen == 3
\* Largest min_length, and largest reported output length, explored.
MaxBound == 2
\* Largest max_length / max_input_length explored.
MaxLimit == 1
\* Largest min_items / max_items explored for the Set validator.
MaxItems == 2

\* Option<usize>::None
None == -1

\* ------------------------------------------------------------ value domains
\* Host elements.  The item validator and the write callback are injected
\* collaborators; how they answer is a property of the element they are given.
\*   "a", "b"  accepted, coerced to 1 and 2
\*   "c"       accepted, coerced to 3, a value the write callback refuses
\*   "bad"     rejected with one Line Error
\*   "omit"    the validator signals omission
\*   "fatal"   the validator fails with an internal (non line-error) error
Elems == {"a", "b", "c", "bad", "omit", "fatal"}
\* What a fallible host iterator yields in place of an element when it fails.
IterErr == "itererr"

\* Option<usize> length bounds explored.
OptBounds == {None} \cup (1 .. MaxLimit)

\* ---------------------------------------------------------------- results
\* ValResult<T>: Ok(..) or Err(ValError); val is the Ok payload, errs the line
\* errors of ValError::LineErrors, what the origin of an internal error.
Ok(tag, v) == [tag |-> tag, val |-> v, errs |-> <<>>, what |-> ""]
OkUnit == Ok("OkUnit", 0)
OkSome(v) == Ok("OkSome", v)
OkNone == Ok("OkNone", 0)
ErrLineErrors(es) == [tag |-> "LineErrors", val |-> 0, errs |-> es, what |-> ""]
ErrOmit == [tag |-> "Omit", val |-> 0, errs |-> <<>>, what |-> ""]
ErrInternal(w) == [tag |-> "InternalErr", val |-> 0, errs |-> <<>>, what |-> w]
\* No value returned yet.
NoResult == [tag |-> "Pending", val |-> 0, errs |-> <<>>, what |-> ""]

IsErr(r) == r.tag \in {"LineErrors", "Omit", "InternalErr"}

LineError(type, minl, actual) ==
    [type |-> type, loc |-> <<>>, min_length |-> minl, actual_length |-> actual]

\* ValError::with_outer_location: prefixes the location of every line error,
\* leaves every other error as it is.
WithOuterLocation(r, index) ==
    IF r.tag = "LineErrors"
    THEN ErrLineErrors([i \in 1 .. Len(r.errs) |->
             [r.errs[i] EXCEPT !.loc = <<index>> \o @]])
    ELSE r

\* items_validator.validate(value): the injected item validator.
ItemValidate(e) ==
    CASE e = "a" -> Ok("Ok", 1)
      [] e = "b" -> Ok("Ok", 2)
      [] e = "c" -> Ok("Ok", 3)
      [] e = "bad" -> ErrLineErrors(<<LineError("item_error", None, None)>>)
      [] e = "omit" -> ErrOmit
      [] OTHER -> ErrInternal("validator")

\* ------------------------------------------------ IterableValidationChecks
NewChecks(fail_fast, min_length, max_length, max_input_length) ==
    [input_length |-> 0, output_length |-> 0, fail_fast |-> fail_fast,
     min_length |-> min_length, max_length |-> max_length,
     max_input_length |-> max_input_length, errors |-> <<>>]

\* add_error
AddError(c, error) == [c EXCEPT !.errors = Append(@, error)]

\* check_max_length: both branches of the comparison return Ok(()).
CheckMaxLength(current_length, max_length) ==
    IF max_length < current_length THEN OkUnit ELSE OkUnit

\* Mutants of filter_validation_result, each one slip away from it.
\* fail_fast is not consulted: a rejection is always recorded.
FilterValidationResultNoFailFast(c, result) ==
    LET recorded == result.tag = "LineErrors"
        res == CASE result.tag = "Ok" -> OkSome(result.val)
                 [] result.tag = "LineErrors" -> OkNone
                 [] result.tag = "Omit" -> OkNone
                 [] OTHER -> result
        c1 == [c EXCEPT !.errors = IF recorded THEN @ \o result.errs ELSE @,
                        !.input_length = @ + 1]
        chkIn == IF c1.max_input_length # None
                 THEN CheckMaxLength(c1.input_length, c1.max_input_length)
                 ELSE OkUnit
        chkOut == IF c1.max_length # None
                  THEN CheckMaxLength(c1.output_length + Len(c1.errors), c1.max_length)
                  ELSE OkUnit
    IN  [checks |-> c1,
         res |-> IF IsErr(chkIn) THEN chkIn
                 ELSE IF IsErr(chkOut) THEN chkOut
                 ELSE res]

\* In collect-all mode the rejection is swallowed without being recorded.
FilterValidationResultNotRecorded(c, result) ==
    LET res == CASE result.tag = "Ok" -> OkSome(result.val)
                 [] result.tag = "LineErrors" ->
                        IF c.fail_fast THEN result ELSE OkNone
                 [] result.tag = "Omit" -> OkNone
                 [] OTHER -> result
        c1 == [c EXCEPT !.input_length = @ + 1]
        chkIn == IF c1.max_input_length # None
                 THEN CheckMaxLength(c1.input_length, c1.max_input_length)
                 ELSE OkUnit
        chkOut == IF c1.max_length # None
                  THEN CheckMaxLength(c1.output_length + Len(c1.errors), c1.max_length)
                  ELSE OkUnit
    IN  [checks |-> c1,
         res |-> IF IsErr(chkIn) THEN chkIn
                 ELSE IF IsErr(chkOut) THEN chkOut
                 ELSE res]

\* The Omit arm is missing: omission falls through to `Err(e) => Err(e)`.
FilterValidationResultOmitPropagates(c, result) ==
    LET recorded == result.tag = "LineErrors" /\ ~c.fail_fast
        res == CASE result.tag = "Ok" -> OkSome(result.val)
                 [] result.tag = "LineErrors" ->
                        IF c.fail_fast THEN result ELSE OkNone
                 [] OTHER -> result
        c1 == [c EXCEPT !.errors = IF recorded THEN @ \o result.errs ELSE @,
                        !.input_length = @ + 1]
        chkIn == IF c1.max_input_length # None
                 THEN CheckMaxLength(c1.input_length, c1.max_input_length)
                 ELSE OkUnit
        chkOut == IF c1.max_length # None
                  THEN CheckMaxLength(c1.output_length + Len(c1.errors), c1.max_length)
                  ELSE OkUnit
    IN  [checks |-> c1,
         res |-> IF IsErr(chkIn) THEN chkIn
                 ELSE IF IsErr(chkOut) THEN chkOut
                 ELSE res]

\* A recorded rejection is put in front of the errors recorded before it.
FilterValidationResultPrepends(c, result) ==
    LET recorded == result.tag = "LineErrors" /\ ~c.fail_fast
        res == CASE result.tag = "Ok" -> OkSome(result.val)
                 [] result.tag = "LineErrors" ->
                        IF c.fail_fast THEN result ELSE OkNone
                 [] result.tag = "Omit" -> OkNone
                 [] OTHER -> result
        c1 == [c EXCEPT !.errors = IF recorded THEN result.errs \o @ ELSE @,
                        !.input_length = @ + 1]
        chkIn == IF c1.max_input_length # None
                 THEN CheckMaxLength(c1.input_length, c1.max_input_length)
                 ELSE OkUnit
        chkOut == IF c1.max_length # None
                  THEN CheckMaxLength(c1.output_length + Len(c1.errors), c1.max_length)
                  ELSE OkUnit
    IN  [checks |-> c1,
         res |-> IF IsErr(chkIn) THEN chkIn
                 ELSE IF IsErr(chkOut) THEN chkOut
                 ELSE res]

\* In collect-all mode a fatal error is swallowed like an omission.
FilterValidationResultFatalSwallowed(c, result) ==
    LET recorded == result.tag = "LineErrors" /\ ~c.fail_fast
        res == CASE result.tag = "Ok" -> OkSome(result.val)
                 [] result.tag = "LineErrors" ->
                        IF c.fail_fast THEN result ELSE OkNone
                 [] result.tag = "Omit" -> OkNone
                 [] OTHER -> IF c.fail_fast THEN result ELSE OkNone
        c1 == [c EXCEPT !.errors = IF recorded THEN @ \o result.errs ELSE @,
                        !.input_length = @ + 1]
        chkIn == IF c1.max_input_length # None
                 THEN CheckMaxLength(c1.input_length, c1.max_input_length)
                 ELSE OkUnit
        chkOut == IF c1.max_length # None
                  THEN CheckMaxLength(c1.output_length + Len(c1.errors), c1.max_length)
                  ELSE OkUnit
    IN  [checks |-> c1,
         res |-> IF IsErr(chkIn) THEN chkIn
                 ELSE IF IsErr(chkOut) THEN chkOut
                 ELSE res]

\* Mutant of filter_validation_result: the input count moves only when the
\* call does not return an error.
FilterValidationResultCountsOnlyKept(c, result) ==
    LET recorded == result.tag = "LineErrors" /\ ~c.fail_fast
        res == CASE result.tag = "Ok" -> OkSome(result.val)
                 [] result.tag = "LineErrors" ->
                        IF c.fail_fast THEN result ELSE OkNone
                 [] result.tag = "Omit" -> OkNone
                 [] OTHER -> result
        c1 == [c EXCEPT !.errors = IF recorded THEN @ \o result.errs ELSE @,
                        !.input_length = IF IsErr(res) THEN @ ELSE @ + 1]
        chkIn == IF c1.max_input_length # None
                 THEN CheckMaxLength(c1.input_length, c1.max_input_length)
                 ELSE OkUnit
        chkOut == IF c1.max_length # None
                  THEN CheckMaxLength(c1.output_length + Len(c1.errors), c1.max_length)
                  ELSE OkUnit
    IN  [checks |-> c1,
         res |-> IF IsErr(chkIn) THEN chkIn
                 ELSE IF IsErr(chkOut) THEN chkOut
                 ELSE res]

\* filter_validation_result: [checks |-> the object afterwards, res |-> returned]
FilterValidationResult(c, result) ==
    LET recorded == result.tag = "LineErrors" /\ ~c.fail_fast
        res == CASE result.tag = "Ok" -> OkSome(result.val)
                 [] result.tag = "LineErrors" ->
                        IF c.fail_fast THEN result ELSE OkNone
                 [] result.tag = "Omit" -> OkNone
                 [] OTHER -> result
        c1 == [c EXCEPT !.errors = IF recorded THEN @ \o result.errs ELSE @,
                        !.input_length = @ + 1]
        chkIn == IF c1.max_input_length # None
                 THEN CheckMaxLength(c1.input_length, c1.max_input_length)
                 ELSE OkUnit
        chkOut == IF c1.max_length # None
                  THEN CheckMaxLength(c1.output_length + Len(c1.errors), c1.max_length)
                  ELSE OkUnit
    IN  [checks |-> c1,
         res |-> IF IsErr(chkIn) THEN chkIn
                 ELSE IF IsErr(chkOut) THEN chkOut
                 ELSE res]

\* check_output_length
CheckOutputLength(c, output_length) ==
    LET c1 == [c EXCEPT !.output_length = output_length]
        chk == IF c1.max_length # None
               THEN CheckMaxLength(output_length + Len(c1.errors), c1.max_length)
               ELSE OkUnit
    IN  [checks |-> c1, res |-> chk]

\* Mutant of finish: the too-short error is put in front of the recorded errors.
FinishTooShortFirst(c) ==
    LET errs == IF c.min_length > c.output_length
                THEN <<LineError("too_short", c.min_length, c.output_length)>>
                         \o c.errors
                ELSE c.errors
    IN  IF errs = <<>>
        THEN [checks |-> [c EXCEPT !.errors = errs], res |-> OkUnit]
        ELSE [checks |-> [c EXCEPT !.errors = <<>>], res |-> ErrLineErrors(errs)]

\* Mutant of finish: the minimum is compared with, and the error reports, the
\* number of inputs seen instead of the output length.
FinishCountsInputs(c) ==
    LET errs == IF c.min_length > c.input_length
                THEN Append(c.errors,
                            LineError("too_short", c.min_length, c.input_length))
                ELSE c.errors
    IN  IF errs = <<>>
        THEN [checks |-> [c EXCEPT !.errors = errs], res |-> OkUnit]
        ELSE [checks |-> [c EXCEPT !.errors = <<>>], res |-> ErrLineErrors(errs)]

\* finish
Finish(c) ==
    LET errs == IF c.min_length > c.output_length
                THEN Append(c.errors,
                            LineError("too_short", c.min_length, c.output_length))
                ELSE c.errors
    IN  IF errs = <<>>
        THEN [checks |-> [c EXCEPT !.errors = errs], res |-> OkUnit]
        ELSE [checks |-> [c EXCEPT !.errors = <<>>], res |-> ErrLineErrors(errs)]

\* ------------------------------------------------- injected output callbacks
InSeq(s, v) == \E i \in 1 .. Len(s) : s[i] = v

\* write(output, value): pushes onto a vector, inserts into a set (kept here in
\* insertion order); refuses the value 3.
Write(kind, out, v) ==
    IF v = 3 THEN [ok |-> FALSE, out |-> out]
    ELSE IF kind = "set" /\ InSeq(out, v) THEN [ok |-> TRUE, out |-> out]
    ELSE [ok |-> TRUE, out |-> Append(out, v)]

\* len(output)
OutLen(out) == Len(out)

\* ------------------------------------------------------------ SetValidator
\* Host values handed to the Set validator.  shape is what the host object is:
\* "set" (the native set), "list" (set-like, coercible) or "other" (not a
\* collection); elems is its iteration order.  Host elements:
\*   "1", "2"  the ints 1 and 2        "s1"  the string "1"
\*   "x"       a string no int parses  "u"   an unhashable value
HostElems == {"1", "2", "s1", "x", "u"}
Hashable == HostElems \ {"u"}

Range(f) == {f[i] : i \in DOMAIN f}
Distinct(f) == \A i, j \in DOMAIN f : i # j => f[i] # f[j]

SetOk(out, calls) == [tag |-> "Ok", out |-> out, errs |-> <<>>, calls |-> calls]
SetErr(errs, calls) == [tag |-> "LineErrors", out |-> {}, errs |-> errs, calls |-> calls]
SetInternalErr(calls) == [tag |-> "InternalErr", out |-> {}, errs |-> <<>>, calls |-> calls]
SetPending == [tag |-> "Pending", out |-> {}, errs |-> <<>>, calls |-> 0]

\* err_val_error!(kind, context!(key => value)): one line error at the input.
SetLineError(kind, key, value) == [type |-> kind, loc |-> <<>>, ctx |-> <<key, value>>]
NoCtx == "none"

\* Input::strict_set: a view only of the exact native set.
StrictSet(input) ==
    IF input.shape = "set" THEN [ok |-> TRUE, list |-> input.elems]
    ELSE [ok |-> FALSE, list |-> <<>>]

\* Input::lax_set: a view of any set-like representation.
LaxSet(input) ==
    IF input.shape \in {"set", "list"} THEN [ok |-> TRUE, list |-> input.elems]
    ELSE [ok |-> FALSE, list |-> <<>>]

\* The item validator behind `items` (an int validator in lax mode): ints pass,
\* a numeric string is coerced, anything else is rejected with one line error.
SetItemValidate(e) ==
    CASE e = "1" -> [ok |-> TRUE, val |-> "1"]
      [] e = "2" -> [ok |-> TRUE, val |-> "2"]
      [] e = "s1" -> [ok |-> TRUE, val |-> "1"]
      [] OTHER -> [ok |-> FALSE, val |-> e]

RECURSIVE ValidateToVec(_, _)
\* GenericSequence::validate_to_vec over the first n elements: the accepted
\* values in order, and the line errors of the rejected ones, each prefixed
\* with its index.
ValidateToVec(list, n) ==
    IF n = 0 THEN [vec |-> <<>>, errs |-> <<>>]
    ELSE LET prev == ValidateToVec(list, n - 1)
             r == SetItemValidate(list[n])
         IN  IF r.ok THEN [prev EXCEPT !.vec = Append(@, r.val)]
             ELSE [prev EXCEPT !.errs =
                      Append(@, [type |-> "int_parsing", loc |-> <<n - 1>>,
                                 ctx |-> <<NoCtx, None>>])]

\* GenericSequence::copy_to_vec
CopyToVec(list) == list

\* PySet::new(py, &output).map_err(as_internal): fails on an unhashable element.
PySetNew(vec, calls) ==
    IF \A i \in 1 .. Len(vec) : vec[i] \in Hashable
    THEN SetOk(Range(vec), calls)
    ELSE SetInternalErr(calls)

\* Mutants of _validation_logic.
\* The lower bound is compared with <= : an input of exactly min_items fails.
ValidationLogicOffByOne(self, list) ==
    LET length == Len(list)
    IN  IF self.min_items # None /\ length <= self.min_items
        THEN SetErr(<<SetLineError("set_too_short", "min_length", self.min_items)>>, 0)
        ELSE IF self.max_items # None /\ length > self.max_items
        THEN SetErr(<<SetLineError("set_too_long", "max_length", self.max_items)>>, 0)
        ELSE IF self.item_validator # "none"
        THEN LET v == ValidateToVec(list, length)
             IN  IF v.errs # <<>> THEN SetErr(v.errs, length)
                 ELSE PySetNew(v.vec, length)
        ELSE PySetNew(CopyToVec(list), 0)

\* The elements are validated (and coerced) even when no item schema is given.
ValidationLogicAlwaysValidates(self, list) ==
    LET length == Len(list)
    IN  IF self.min_items # None /\ length < self.min_items
        THEN SetErr(<<SetLineError("set_too_short", "min_length", self.min_items)>>, 0)
        ELSE IF self.max_items # None /\ length > self.max_items
        THEN SetErr(<<SetLineError("set_too_long", "max_length", self.max_items)>>, 0)
        ELSE LET v == ValidateToVec(list, length)
             IN  IF v.errs # <<>> THEN SetErr(v.errs, length)
                 ELSE PySetNew(v.vec, length)

\* The upper bound is compared before the lower one.
ValidationLogicMaxFirst(self, list) ==
    LET length == Len(list)
    IN  IF self.max_items # None /\ length > self.max_items
        THEN SetErr(<<SetLineError("set_too_long", "max_length", self.max_items)>>, 0)
        ELSE IF self.min_items # None /\ length < self.min_items
        THEN SetErr(<<SetLineError("set_too_short", "min_length", self.min_items)>>, 0)
        ELSE IF self.item_validator # "none"
        THEN LET v == ValidateToVec(list, length)
             IN  IF v.errs # <<>> THEN SetErr(v.errs, length)
                 ELSE PySetNew(v.vec, length)
        ELSE PySetNew(CopyToVec(list), 0)

\* SetValidator::_validation_logic
ValidationLogic(self, list) ==
    LET length == Len(list)
    IN  IF self.min_items # None /\ length < self.min_items
        THEN SetErr(<<SetLineError("set_too_short", "min_length", self.min_items)>>, 0)
        ELSE IF self.max_items # None /\ length > self.max_items
        THEN SetErr(<<SetLineError("set_too_long", "max_length", self.max_items)>>, 0)
        ELSE IF self.item_validator # "none"
        THEN LET v == ValidateToVec(list, length)
             IN  IF v.errs # <<>> THEN SetErr(v.errs, length)
                 ELSE PySetNew(v.vec, length)
        ELSE PySetNew(CopyToVec(list), 0)

\* What `input.strict_set()?` / `input.lax_set()?` return on a refused input.
SetTypeError == SetErr(<<SetLineError("set_type", NoCtx, None)>>, 0)

\* Mutant of validate: the strict flag is not consulted.
ValidateIgnoresStrict(self, input) ==
    LET set == LaxSet(input)
    IN  IF ~set.ok THEN SetTypeError ELSE ValidationLogic(self, set.list)

\* SetValidator::validate
Validate(self, input) ==
    LET set == IF self.strict THEN StrictSet(input) ELSE LaxSet(input)
    IN  IF ~set.ok THEN SetTypeError ELSE ValidationLogic(self, set.list)

\* SetValidator::validate_strict
ValidateStrict(self, input) ==
    LET set == StrictSet(input)
    IN  IF ~set.ok THEN SetTypeError ELSE ValidationLogic(self, set.list)

\* ------------------------------------------------------------------- state
VARIABLES
    driver,      \* "infallible" | "fallible": which driver function runs
    container,   \* "vec" | "set": the kind of output the callbacks serve
    items,       \* what the host iterator yields, in order
    idx,         \* enumerate() index of the next item
    checks,      \* the IterableValidationChecks object
    output,      \* the caller's output container
    pc,          \* "loop" | "done"
    result,      \* the driver's return value once pc = "done"
    validated,   \* history: indices handed to the item validator, in order
    finishCalled, \* history: whether checks.finish was called
    self,        \* the SetValidator: strict, item_validator, min_items, max_items
    input,       \* the host value handed to the Set validator
    entry,       \* "none" | "validate" | "validate_strict": the method called
    setResult,   \* what that call returned
    hist,        \* history of the calls made on a checks object used on its own
    heap,        \* host containers by identity: the elements each one holds
    root,        \* the container handed to the outermost validate call
    stack,       \* the validate calls in progress, outermost first
    guard,       \* the recursion guard: identities of the inputs being validated
    gresult      \* what the outermost validate call returned

dvars == <<driver, container, items, idx, checks, output, pc, result,
           validated, finishCalled>>
svars == <<self, input, entry, setResult>>
cvars == <<hist>>
gvars == <<heap, root, stack, guard, gresult>>
vars == <<dvars, svars, cvars, gvars>>

RECURSIVE SeqsUpTo(_, _)
SeqsUpTo(S, n) ==
    IF n = 0 THEN {<<>>}
    ELSE LET shorter == SeqsUpTo(S, n - 1)
         IN  shorter \cup {Append(s, x) : s \in {t \in shorter : Len(t) = n - 1}, x \in S}

\* No Set validation in progress.
SetIdle ==
    /\ self = [strict |-> FALSE, item_validator |-> "none",
               min_items |-> None, max_items |-> None]
    /\ input = [shape |-> "other", elems |-> <<>>]
    /\ entry = "none"
    /\ setResult = SetPending

\* No checks object is being driven call by call.
ChecksIdle ==
    hist = [calls |-> 0, lastLen |-> 0, log |-> <<>>, n |-> 0, op |-> "none",
            arg |-> NoResult, ret |-> NoResult, finished |-> FALSE]

\* No recursive validation in progress.
GuardIdle ==
    /\ heap = <<>> /\ root = 0 /\ stack = <<>> /\ guard = {} /\ gresult = NoResult

\* A driver is about to run over `items` with a fresh checks object.
DriverInit ==
    /\ driver \in {"infallible", "fallible"}
    /\ container \in {"vec", "set"}
    /\ items \in SeqsUpTo(IF driver = "fallible" THEN Elems \cup {IterErr} ELSE Elems,
                          MaxLen)
    /\ idx = 0
    /\ \E ff \in BOOLEAN, mn \in 0 .. MaxBound, mx \in OptBounds, mi \in OptBounds :
          checks = NewChecks(ff, mn, mx, mi)
    /\ output = <<>>
    /\ pc = "loop"
    /\ result = NoResult
    /\ validated = <<>>
    /\ finishCalled = FALSE

Init == DriverInit /\ SetIdle /\ ChecksIdle /\ GuardIdle

\* Mutant of the loop body: a failure empties the output container.
LoopBodyRollsBack(c, kind, out, e, index) ==
    LET r == WithOuterLocation(ItemValidate(e), index)
        f == FilterValidationResult(c, r)
    IN  IF IsErr(f.res) THEN [checks |-> f.checks, out |-> <<>>, res |-> f.res]
        ELSE IF f.res.tag = "OkSome"
        THEN LET w == Write(kind, out, f.res.val)
                 col == CheckOutputLength(f.checks, OutLen(w.out))
             IN  IF ~w.ok
                 THEN [checks |-> f.checks, out |-> <<>>, res |-> ErrInternal("write")]
                 ELSE [checks |-> col.checks, out |-> w.out, res |-> col.res]
        ELSE [checks |-> f.checks, out |-> out, res |-> OkUnit]

\* One pass of the loop body shared by both drivers, for the element e at
\* enumerate() index `index`: validate, filter, write, re-check the length.
\* res is OkUnit when the loop goes on and the error `?` returns otherwise.
LoopBody(c, kind, out, e, index) ==
    LET r == WithOuterLocation(ItemValidate(e), index)
        f == FilterValidationResult(c, r)
    IN  IF IsErr(f.res) THEN [checks |-> f.checks, out |-> out, res |-> f.res]
        ELSE IF f.res.tag = "OkSome"
        THEN LET w == Write(kind, out, f.res.val)
                 col == CheckOutputLength(f.checks, OutLen(w.out))
             IN  IF ~w.ok
                 THEN [checks |-> f.checks, out |-> w.out, res |-> ErrInternal("write")]
                 ELSE [checks |-> col.checks, out |-> w.out, res |-> col.res]
        ELSE [checks |-> f.checks, out |-> out, res |-> OkUnit]

RECURSIVE InfallibleRun(_, _, _, _, _)
\* validate_infallible_iterator as a function of its arguments, from
\* enumerate() index i on: what is left in checks and output, and the return.
InfallibleRun(c, kind, out, s, i) ==
    IF i = Len(s)
    THEN LET f == Finish(c)
         IN  [checks |-> f.checks, out |-> out, res |-> f.res]
    ELSE LET b == LoopBody(c, kind, out, s[i + 1], i)
         IN  IF IsErr(b.res) THEN b
             ELSE InfallibleRun(b.checks, kind, b.out, s, i + 1)

\* validate_infallible_iterator, one iteration of the for loop.
InfallibleStep ==
    /\ driver = "infallible" /\ pc = "loop" /\ idx < Len(items)
    /\ LET b == LoopBody(checks, container, output, items[idx + 1], idx)
       IN  /\ checks' = b.checks
           /\ output' = b.out
           /\ validated' = Append(validated, idx)
           /\ IF IsErr(b.res)
              THEN pc' = "done" /\ result' = b.res /\ idx' = idx
              ELSE pc' = pc /\ result' = result /\ idx' = idx + 1
    /\ UNCHANGED <<driver, container, items, finishCalled, svars, cvars, gvars>>

\* validate_infallible_iterator, after the loop: checks.finish(input)?; Ok(())
InfallibleFinish ==
    /\ driver = "infallible" /\ pc = "loop" /\ idx = Len(items)
    /\ LET f == Finish(checks)
       IN  checks' = f.checks /\ result' = f.res
    /\ pc' = "done"
    /\ finishCalled' = TRUE
    /\ UNCHANGED <<driver, container, items, idx, output, validated, svars, cvars, gvars>>

\* Mutant of the fallible loop: a host-iterator error is skipped over instead
\* of being returned.
FallibleStepSkipsIterErr ==
    /\ driver = "fallible" /\ pc = "loop" /\ idx < Len(items)
    /\ IF items[idx + 1] = IterErr
       THEN /\ idx' = idx + 1
            /\ UNCHANGED <<checks, output, validated, pc, result>>
       ELSE LET b == LoopBody(checks, container, output, items[idx + 1], idx)
            IN  /\ checks' = b.checks
                /\ output' = b.out
                /\ validated' = Append(validated, idx)
                /\ IF IsErr(b.res)
                   THEN pc' = "done" /\ result' = b.res /\ idx' = idx
                   ELSE pc' = pc /\ result' = result /\ idx' = idx + 1
    /\ UNCHANGED <<driver, container, items, finishCalled, svars, cvars, gvars>>

\* Mutant of the fallible loop: the enumerate() index handed on is one too high.
FallibleStepIndexOffByOne ==
    /\ driver = "fallible" /\ pc = "loop" /\ idx < Len(items)
    /\ IF items[idx + 1] = IterErr
       THEN /\ pc' = "done"
            /\ result' = ErrInternal("iterator")
            /\ UNCHANGED <<checks, output, validated, idx>>
       ELSE LET b == LoopBody(checks, container, output, items[idx + 1], idx + 1)
            IN  /\ checks' = b.checks
                /\ output' = b.out
                /\ validated' = Append(validated, idx)
                /\ IF IsErr(b.res)
                   THEN pc' = "done" /\ result' = b.res /\ idx' = idx
                   ELSE pc' = pc /\ result' = result /\ idx' = idx + 1
    /\ UNCHANGED <<driver, container, items, finishCalled, svars, cvars, gvars>>

\* validate_fallible_iterator, one iteration: `result?` first, then the body.
FallibleStep ==
    /\ driver = "fallible" /\ pc = "loop" /\ idx < Len(items)
    /\ IF items[idx + 1] = IterErr
       THEN /\ pc' = "done"
            /\ result' = ErrInternal("iterator")
            /\ UNCHANGED <<checks, output, validated, idx>>
       ELSE LET b == LoopBody(checks, container, output, items[idx + 1], idx)
            IN  /\ checks' = b.checks
                /\ output' = b.out
                /\ validated' = Append(validated, idx)
                /\ IF IsErr(b.res)
                   THEN pc' = "done" /\ result' = b.res /\ idx' = idx
                   ELSE pc' = pc /\ result' = result /\ idx' = idx + 1
    /\ UNCHANGED <<driver, container, items, finishCalled, svars, cvars, gvars>>

\* validate_fallible_iterator, after the loop.
FallibleFinish ==
    /\ driver = "fallible" /\ pc = "loop" /\ idx = Len(items)
    /\ LET f == Finish(checks)
       IN  checks' = f.checks /\ result' = f.res
    /\ pc' = "done"
    /\ finishCalled' = TRUE
    /\ UNCHANGED <<driver, container, items, idx, output, validated, svars, cvars, gvars>>

Next == InfallibleStep \/ InfallibleFinish \/ FallibleStep \/ FallibleFinish

Spec == Init /\ [][Next]_vars

\* ------------------------------------------------- the Set validator's runs
\* No driver in progress.
DriverIdle ==
    /\ driver = "infallible" /\ container = "vec" /\ items = <<>> /\ idx = 0
    /\ checks = NewChecks(FALSE, 0, None, None)
    /\ output = <<>> /\ pc = "done" /\ result = NoResult
    /\ validated = <<>> /\ finishCalled = FALSE

\* A built SetValidator and a host value: a native set holds distinct hashable
\* elements, a list holds anything, any other value has no elements.
SetInit ==
    /\ \E st \in BOOLEAN, iv \in {"none", "int"},
          mn \in {None} \cup (0 .. MaxItems), mx \in {None} \cup (0 .. MaxItems) :
          self = [strict |-> st, item_validator |-> iv, min_items |-> mn, max_items |-> mx]
    /\ \E sh \in {"set", "list", "other"} :
          /\ input \in [shape : {sh},
                        elems : CASE sh = "set" ->
                                      {q \in SeqsUpTo(Hashable, MaxLen) : Distinct(q)}
                                  [] sh = "list" -> SeqsUpTo(HostElems, MaxLen)
                                  [] OTHER -> {<<>>}]
    /\ entry = "none"
    /\ setResult = SetPending

\* A call of SetValidator::validate.
SetValidate ==
    /\ entry = "none"
    /\ entry' = "validate"
    /\ setResult' = Validate(self, input)
    /\ UNCHANGED <<self, input, dvars, cvars, gvars>>

\* A call of SetValidator::validate_strict.
SetValidateStrict ==
    /\ entry = "none"
    /\ entry' = "validate_strict"
    /\ setResult' = ValidateStrict(self, input)
    /\ UNCHANGED <<self, input, dvars, cvars, gvars>>

\* The caller hands the returned set back to the same validator.
SetFeedBack ==
    /\ entry # "none" /\ setResult.tag = "Ok"
    /\ \E q \in SeqsUpTo(setResult.out, Cardinality(setResult.out)) :
          /\ Distinct(q) /\ Range(q) = setResult.out
          /\ input' = [shape |-> "set", elems |-> q]
    /\ entry' = "none"
    /\ setResult' = SetPending
    /\ UNCHANGED <<self, dvars, cvars, gvars>>

SetInitAll == SetInit /\ DriverIdle /\ ChecksIdle /\ GuardIdle
SetNext == SetValidate \/ SetValidateStrict \/ SetFeedBack
SetSpec == SetInitAll /\ [][SetNext]_vars

\* ------------------------------------- a checks object driven call by call
\* What a caller may hand to filter_validation_result: a value, a rejection,
\* an omission, a fatal error.
Outcomes == {"a", "bad", "omit", "fatal"}

\* A fresh checks object; no driver and no Set validation runs.
ChecksInit ==
    /\ driver = "infallible" /\ container = "vec" /\ items = <<>> /\ idx = 0
    /\ \E ff \in BOOLEAN, mn \in 0 .. MaxBound, mx \in OptBounds, mi \in OptBounds :
          checks = NewChecks(ff, mn, mx, mi)
    /\ output = <<>> /\ pc = "done" /\ result = NoResult
    /\ validated = <<>> /\ finishCalled = FALSE
    /\ SetIdle /\ ChecksIdle /\ GuardIdle

\* A call of filter_validation_result. The history notes an error as recorded
\* when a rejection was handed in and the call answered Ok(None).
CallFilterValidationResult ==
    /\ ~hist.finished /\ hist.n < MaxLen
    /\ \E e \in Outcomes :
          LET r == WithOuterLocation(ItemValidate(e), hist.calls)
              f == FilterValidationResult(checks, r)
          IN  /\ checks' = f.checks
              /\ hist' = [hist EXCEPT
                     !.calls = @ + 1,
                     !.log = IF r.tag = "LineErrors" /\ f.res = OkNone
                             THEN @ \o r.errs ELSE @,
                     !.n = @ + 1, !.op = "filter", !.arg = r, !.ret = f.res]
    /\ UNCHANGED <<driver, container, items, idx, output, pc, result, validated,
                   finishCalled, svars, gvars>>

\* A call of check_output_length.
CallCheckOutputLength ==
    /\ ~hist.finished /\ hist.n < MaxLen
    /\ \E len \in 0 .. MaxBound :
          LET col == CheckOutputLength(checks, len)
          IN  /\ checks' = col.checks
              /\ hist' = [hist EXCEPT !.lastLen = len, !.n = @ + 1,
                                      !.op = "check_output_length",
                                      !.arg = NoResult, !.ret = col.res]
    /\ UNCHANGED <<driver, container, items, idx, output, pc, result, validated,
                   finishCalled, svars, gvars>>

\* A call of add_error.
CallAddError ==
    /\ ~hist.finished /\ hist.n < MaxLen
    /\ LET error == LineError("structural", None, None)
       IN  /\ checks' = AddError(checks, error)
           /\ hist' = [hist EXCEPT !.log = Append(@, error), !.n = @ + 1,
                                   !.op = "add_error",
                                   !.arg = NoResult, !.ret = NoResult]
    /\ UNCHANGED <<driver, container, items, idx, output, pc, result, validated,
                   finishCalled, svars, gvars>>

\* The call of finish that ends the iteration.
CallFinish ==
    /\ ~hist.finished
    /\ LET f == Finish(checks)
       IN  /\ checks' = f.checks
           /\ hist' = [hist EXCEPT !.op = "finish", !.arg = NoResult,
                                   !.ret = f.res, !.finished = TRUE]
    /\ UNCHANGED <<driver, container, items, idx, output, pc, result, validated,
                   finishCalled, svars, gvars>>

ChecksNext ==
    CallFilterValidationResult \/ CallCheckOutputLength \/ CallAddError \/ CallFinish
ChecksSpec == ChecksInit /\ [][ChecksNext]_vars

\* ---------------------------------------------------- the recursion guard
\* A self-referential container validator walks host containers that may hold
\* themselves. The guard and the recursive validator follow the specification
\* (sections 3 and 4.2); each validate call in progress runs the loop of
\* validate_infallible_iterator over the elements of its container.
MaxObjs == 2
Arity == 2
Leaf == 0
Objs == 1 .. MaxObjs

\* The (validator, input-identity) pair of the one recursive validator.
Pair(obj) == <<"container", obj>>

\* enter(id) -> ok | already-active
GuardEnter(g, id) ==
    IF id \in g THEN [ok |-> FALSE, guard |-> g]
    ELSE [ok |-> TRUE, guard |-> g \cup {id}]

\* leave(id)
GuardLeave(g, id) == g \ {id}

\* The dedicated recursive-input failure: one line error at the point of
\* detection.
RecursionError == ErrLineErrors(<<LineError("recursion_loop", None, None)>>)

\* A validate call that has just entered `obj`.
Frame(obj, ff) ==
    [obj |-> obj, idx |-> 0, checks |-> NewChecks(ff, 0, None, None),
     out |-> <<>>, err |-> NoResult, got |-> NoResult]

\* The loop body of the driver in frame f, once the item validator has
\* answered r for the element at index f.idx.
Deliver(f, r) ==
    LET fv == FilterValidationResult(f.checks, WithOuterLocation(r, f.idx))
        g == [f EXCEPT !.idx = @ + 1, !.got = r]
    IN  IF IsErr(fv.res) THEN [g EXCEPT !.checks = fv.checks, !.err = fv.res]
        ELSE IF fv.res.tag = "OkSome"
        THEN LET w == Write("vec", f.out, fv.res.val)
                 col == CheckOutputLength(fv.checks, OutLen(w.out))
             IN  IF ~w.ok
                 THEN [g EXCEPT !.checks = fv.checks, !.out = w.out,
                                !.err = ErrInternal("write")]
                 ELSE [g EXCEPT !.checks = col.checks, !.out = w.out,
                                !.err = IF IsErr(col.res) THEN col.res ELSE NoResult]
        ELSE [g EXCEPT !.checks = fv.checks]

\* What the validate call of frame f returns once its loop is over.
Returned(f) ==
    IF f.err # NoResult THEN f.err
    ELSE LET fin == Finish(f.checks)
         IN  IF IsErr(fin.res) THEN fin.res ELSE Ok("Ok", 2)

Top == stack[Len(stack)]
Below == SubSeq(stack, 1, Len(stack) - 1)
Looping(f) == f.err = NoResult /\ f.idx < Arity
NextChild(f) == heap[f.obj][f.idx + 1]

\* Host containers, each holding Arity elements that are scalars or
\* containers, and the one handed to the validator; nothing else runs.
GuardInit ==
    /\ heap \in [Objs -> [1 .. Arity -> Objs \cup {Leaf}]]
    /\ root \in Objs
    /\ stack = <<>> /\ guard = {} /\ gresult = NoResult
    /\ DriverIdle /\ SetIdle /\ ChecksIdle

\* The outermost validate call enters its input.
GStart ==
    /\ stack = <<>> /\ gresult = NoResult
    /\ \E ff \in BOOLEAN :
          LET enter == GuardEnter(guard, Pair(root))
          IN  /\ enter.ok
              /\ guard' = enter.guard
              /\ stack' = <<Frame(root, ff)>>
    /\ UNCHANGED <<heap, root, gresult, dvars, svars, cvars>>

\* The next element is a scalar: it validates on the spot.
GLeaf ==
    /\ stack # <<>> /\ Looping(Top) /\ NextChild(Top) = Leaf
    /\ stack' = Append(Below, Deliver(Top, Ok("Ok", 1)))
    /\ UNCHANGED <<heap, root, guard, gresult, dvars, svars, cvars>>

\* The next element is a container not being validated: its validate call
\* enters it and starts.
GEnter ==
    /\ stack # <<>> /\ Looping(Top) /\ NextChild(Top) # Leaf
    /\ LET enter == GuardEnter(guard, Pair(NextChild(Top)))
       IN  /\ enter.ok
           /\ guard' = enter.guard
           /\ stack' = Append(stack, Frame(NextChild(Top), Top.checks.fail_fast))
    /\ UNCHANGED <<heap, root, gresult, dvars, svars, cvars>>

\* The next element is a container being validated: its validate call fails
\* with the recursive-input error, which the loop treats as any rejection.
GRecursion ==
    /\ stack # <<>> /\ Looping(Top) /\ NextChild(Top) # Leaf
    /\ ~GuardEnter(guard, Pair(NextChild(Top))).ok
    /\ stack' = Append(Below, Deliver(Top, RecursionError))
    /\ UNCHANGED <<heap, root, guard, gresult, dvars, svars, cvars>>

\* Mutant of the return step: a call that returns an error leaves its pair in
\* the guard.
GReturnLeaksOnFailure ==
    /\ stack # <<>> /\ ~Looping(Top)
    /\ guard' = IF IsErr(Returned(Top)) THEN guard
                ELSE GuardLeave(guard, Pair(Top.obj))
    /\ IF Len(stack) = 1
       THEN stack' = <<>> /\ gresult' = Returned(Top)
       ELSE /\ stack' = Append(SubSeq(stack, 1, Len(stack) - 2),
                               Deliver(stack[Len(stack) - 1], Returned(Top)))
            /\ UNCHANGED gresult
    /\ UNCHANGED <<heap, root, dvars, svars, cvars>>

\* A validate call is over, by an error or by finish: it leaves its pair and
\* hands its result to the loop that called it, or to the outside.
GReturn ==
    /\ stack # <<>> /\ ~Looping(Top)
    /\ guard' = GuardLeave(guard, Pair(Top.obj))
    /\ IF Len(stack) = 1
       THEN stack' = <<>> /\ gresult' = Returned(Top)
       ELSE /\ stack' = Append(SubSeq(stack, 1, Len(stack) - 2),
                               Deliver(stack[Len(stack) - 1], Returned(Top)))
            /\ UNCHANGED gresult
    /\ UNCHANGED <<heap, root, dvars, svars, cvars>>

GuardNext == GStart \/ GLeaf \/ GEnter \/ GRecursion \/ GReturn
GuardSpec == GuardInit /\ [][GuardNext]_vars

\* ----------------------------------------------------- reading the inputs
Min(S) == CHOOSE x \in S : \A y \in S : x <= y

\* Positions (1-based) of the elements the item validator rejects.
Rejected(s) == {i \in 1 .. Len(s) : s[i] = "bad"}

\* Elements that are validated and leave the loop running whatever fail_fast is.
Harmless == {"a", "b", "omit"}

\* The Line Error the driver reports for the rejected element at enumerate()
\* index `index`.
ItemErrorAt(index) == [LineError("item_error", None, None) EXCEPT !.loc = <<index>>]

RECURSIVE ItemErrorsUpTo(_, _)
\* The Line Errors of the rejected elements among the first n, ascending.
ItemErrorsUpTo(s, n) ==
    IF n = 0 THEN <<>>
    ELSE IF s[n] = "bad" THEN Append(ItemErrorsUpTo(s, n - 1), ItemErrorAt(n - 1))
    ELSE ItemErrorsUpTo(s, n - 1)

\* The line errors a driver result carries (none for a success or a fatal error).
LineErrorsOf(r) == IF r.tag = "LineErrors" THEN r.errs ELSE <<>>

IsTooShort(e) == e.type = "too_short"
IsTooLong(e) == e.type = "too_long"
HasTooLong(r) == \E i \in 1 .. Len(LineErrorsOf(r)) : IsTooLong(LineErrorsOf(r)[i])

\* -------------------------------------------------------------------- C1
\* C1 as stated: with fail_fast = true and at least two rejected elements in
\* the input, a finished driver has returned exactly one Line Error, that of
\* the first rejected element, located at its index.  (Stated here for the
\* runs in which no write and no host-iterator step fails; it is violated
\* even among those.)
C1_Original ==
    (/\ pc = "done" /\ checks.fail_fast /\ Cardinality(Rejected(items)) >= 2
     /\ \A j \in 1 .. Len(items) : items[j] \notin {"c", IterErr})
        => result = ErrLineErrors(<<ItemErrorAt(Min(Rejected(items)) - 1)>>)

\* C1 amended: the same, provided no element before the first rejected one
\* ends the run on its own (a fatal item-validator error, a host-iterator
\* error or a failing write).
C1_FailFastFirstError ==
    (/\ pc = "done" /\ checks.fail_fast
     /\ Cardinality(Rejected(items)) >= 2
     /\ \A j \in 1 .. Min(Rejected(items)) - 1 : items[j] \in Harmless)
        => result = ErrLineErrors(<<ItemErrorAt(Min(Rejected(items)) - 1)>>)

C1_Witness ==
    /\ pc = "done" /\ checks.fail_fast
    /\ Cardinality(Rejected(items)) >= 2
    /\ Min(Rejected(items)) > 1
    /\ \A j \in 1 .. Min(Rejected(items)) - 1 : items[j] \in Harmless
    /\ result.tag = "LineErrors" /\ Len(result.errs) = 1

\* -------------------------------------------------------------------- C2
\* C2 as stated: with fail_fast = false, no host-iterator error and no fatal
\* error (item validator or write), the driver returns exactly the N Line
\* Errors of the N rejected elements, each at its index, in ascending order.
\* (Stated here for N >= 1.)
C2_Original ==
    (/\ pc = "done" /\ ~checks.fail_fast /\ Rejected(items) # {}
     /\ \A j \in 1 .. Len(items) : items[j] \in Harmless \cup {"bad"})
        => LineErrorsOf(result) = ItemErrorsUpTo(items, Len(items))

\* C2 amended: those N Line Errors come first, and one too-short error
\* follows them when the final output length is below min_length.
C2_CollectAllErrors ==
    (/\ pc = "done" /\ ~checks.fail_fast
     /\ \A j \in 1 .. Len(items) : items[j] \in Harmless \cup {"bad"})
        => /\ LineErrorsOf(result) =
                ItemErrorsUpTo(items, Len(items)) \o
                (IF checks.min_length > Len(output)
                 THEN <<LineError("too_short", checks.min_length, Len(output))>>
                 ELSE <<>>)
           /\ result.tag \in {"OkUnit", "LineErrors"}
           /\ result.tag = "OkUnit" <=>
                (Rejected(items) = {} /\ checks.min_length <= Len(output))

C2_Witness ==
    /\ pc = "done" /\ ~checks.fail_fast
    /\ \A j \in 1 .. Len(items) : items[j] \in Harmless \cup {"bad"}
    /\ Cardinality(Rejected(items)) >= 2
    /\ Len(items) > Cardinality(Rejected(items))
    /\ Len(LineErrorsOf(result)) = Cardinality(Rejected(items))

\* -------------------------------------------------------------------- C3
\* Elements that are neither omitted nor invalid.
Kept(s) == {i \in 1 .. Len(s) : s[i] \in {"a", "b", "c"}}

\* No element of the input ends the loop early: nothing fatal, no iterator
\* error, no failing write, and no rejected element under fail_fast.
RunsToCompletion(s, ff) ==
    \A j \in 1 .. Len(s) : s[j] \in Harmless \/ (~ff /\ s[j] = "bad")

TooShortOf(c, out) == LineError("too_short", c.min_length, Len(out))

\* C3 as stated: for every input and fail_fast setting, when fewer than
\* min_length elements are left after removing omitted and invalid ones, the
\* driver fails and its errors include a too-short error carrying min_length
\* and the output length.  (Stated here for the inputs whose elements are
\* only accepted, rejected or omitted; it is violated even among those.)
C3_Original ==
    (/\ pc = "done" /\ Cardinality(Kept(items)) < checks.min_length
     /\ \A j \in 1 .. Len(items) : items[j] \in Harmless \cup {"bad"})
        => \E i \in 1 .. Len(LineErrorsOf(result)) :
              LineErrorsOf(result)[i] = TooShortOf(checks, output)

\* C3 amended: the same for every run that reaches the end of the iterator
\* (no fatal, host-iterator or write error, and no rejected element when
\* fail_fast = true); the too-short error is then the last one returned.
C3_TooShortAtFinish ==
    (/\ pc = "done" /\ RunsToCompletion(items, checks.fail_fast)
     /\ Cardinality(Kept(items)) < checks.min_length)
        => /\ result.tag = "LineErrors"
           /\ result.errs[Len(result.errs)] = TooShortOf(checks, output)
           /\ \A i \in 1 .. Len(result.errs) - 1 : ~IsTooShort(result.errs[i])

C3_Witness ==
    /\ pc = "done" /\ RunsToCompletion(items, checks.fail_fast)
    /\ Cardinality(Kept(items)) < checks.min_length
    /\ Kept(items) # {} /\ Rejected(items) # {}
    /\ result.tag = "LineErrors"
    /\ result.errs[Len(result.errs)].actual_length = 1

\* -------------------------------------------------------------------- C4
\* C4 as stated: once the running input-count has passed max_input_length the
\* driver has stopped with a too-long failure.  (Stated here for the inputs
\* whose elements are all accepted.)
C4_Original ==
    (/\ checks.max_input_length # None
     /\ checks.input_length > checks.max_input_length
     /\ \A j \in 1 .. Len(items) : items[j] \in {"a", "b"})
        => (pc = "done" /\ HasTooLong(result))

\* -------------------------------------------------------------------- C5
\* C5 as stated: a driver never returns success with more than max_length
\* elements in the output container.
C5_Original ==
    (pc = "done" /\ result.tag = "OkUnit" /\ checks.max_length # None)
        => Len(output) <= checks.max_length

\* -------------------------------------------------------------------- C6
\* C6: when every element of a non-empty input is omitted and min_length = 1,
\* the driver returns exactly one Line Error, a too-short error with
\* actual_length 0, for either fail_fast setting.
C6_AllOmittedTooShort ==
    (/\ pc = "done" /\ Len(items) > 0 /\ checks.min_length = 1
     /\ \A j \in 1 .. Len(items) : items[j] = "omit")
        => result = ErrLineErrors(<<LineError("too_short", 1, 0)>>)

C6_Witness ==
    /\ pc = "done" /\ Len(items) >= 2 /\ checks.min_length = 1
    /\ \A j \in 1 .. Len(items) : items[j] = "omit"
    /\ checks.fail_fast
    /\ result.tag = "LineErrors" /\ output = <<>>

\* -------------------------------------------------------------------- C7
\* Positions (1-based) at which the host iterator fails.
IterFailures(s) == {i \in 1 .. Len(s) : s[i] = IterErr}

\* C7: in validate_fallible_iterator, when the host iterator yields an error
\* at position i (the loop having got that far), the driver returns exactly
\* that error for either fail_fast setting: elements i and later are never
\* validated, finish is not called, and the per-element errors recorded so
\* far are not part of what is returned.
C7_IteratorErrorPropagates ==
    (/\ pc = "done" /\ driver = "fallible" /\ IterFailures(items) # {}
     /\ RunsToCompletion(SubSeq(items, 1, Min(IterFailures(items)) - 1),
                         checks.fail_fast))
        => /\ result = ErrInternal("iterator")
           /\ validated = [k \in 1 .. Min(IterFailures(items)) - 1 |-> k - 1]
           /\ ~finishCalled
           /\ checks.errors =
                ItemErrorsUpTo(items, Min(IterFailures(items)) - 1)
           /\ checks.input_length = Min(IterFailures(items)) - 1

C7_Witness ==
    /\ pc = "done" /\ driver = "fallible" /\ IterFailures(items) # {}
    /\ ~checks.fail_fast
    /\ Min(IterFailures(items)) < Len(items)
    /\ result = ErrInternal("iterator")
    /\ checks.errors # <<>>

\* -------------------------------------------------------------------- C8
\* The sequence view the called method obtained, if it obtained one.
ViewOf(v, in, method) ==
    IF method = "validate" /\ ~v.strict THEN LaxSet(in) ELSE StrictSet(in)

\* Every element is one the validator's item schema (if any) accepts and a
\* set can hold.
AllValid(v, list) ==
    \A i \in 1 .. Len(list) :
        IF v.item_validator = "none" THEN list[i] \in Hashable
        ELSE SetItemValidate(list[i]).ok

\* C8: with min_items = max_items = k, an input (in a representation the
\* called method accepts) of exactly k valid elements succeeds, one with
\* fewer than k elements fails with a single too-short error carrying k, and
\* one with more than k elements fails with a single too-long error carrying k.
C8_SetExactBounds ==
    (/\ entry # "none" /\ ViewOf(self, input, entry).ok
     /\ self.min_items # None /\ self.max_items = self.min_items)
        => LET k == self.min_items
               n == Len(input.elems)
           IN  /\ n < k => setResult.tag = "LineErrors" /\ setResult.errs =
                              <<SetLineError("set_too_short", "min_length", k)>>
               /\ n > k => setResult.tag = "LineErrors" /\ setResult.errs =
                              <<SetLineError("set_too_long", "max_length", k)>>
               /\ (n = k /\ AllValid(self, input.elems)) => setResult.tag = "Ok"

C8_Witness ==
    /\ entry # "none" /\ ViewOf(self, input, entry).ok
    /\ self.min_items = 2 /\ self.max_items = 2
    /\ self.item_validator = "int"
    /\ Len(input.elems) = 2 /\ AllValid(self, input.elems)
    /\ setResult.tag = "Ok"

\* -------------------------------------------------------------------- C9
\* C9: built with no item schema and no bounds, the Set validator accepts
\* every native set and returns a set holding exactly the input's elements.
C9_SetRoundTrip ==
    (/\ entry # "none" /\ input.shape = "set"
     /\ self.item_validator = "none"
     /\ self.min_items = None /\ self.max_items = None)
        => /\ setResult.tag = "Ok"
           /\ setResult.out = Range(input.elems)

C9_Witness ==
    /\ entry # "none" /\ input.shape = "set"
    /\ self.item_validator = "none"
    /\ self.min_items = None /\ self.max_items = None
    /\ Len(input.elems) = MaxLen
    /\ "s1" \in Range(input.elems) /\ "x" \in Range(input.elems)
    /\ setResult.tag = "Ok"

\* ------------------------------------------------------------------- C10
\* C10: validate_strict, and validate on a validator built with strict = true,
\* reject every input that is not the native set; a non-exact input is
\* accepted only through validate on a validator built with strict = false.
C10_StrictOnlyExactSet ==
    entry # "none" =>
        /\ ((entry = "validate_strict" \/ self.strict) /\ input.shape # "set")
               => setResult = SetTypeError
        /\ (setResult.tag = "Ok" /\ input.shape # "set")
               => (entry = "validate" /\ ~self.strict)

C10_Witness ==
    /\ entry = "validate" /\ self.strict
    /\ input.shape = "list" /\ Len(input.elems) > 0
    /\ AllValid(self, input.elems)
    /\ self.min_items = None /\ self.max_items = None
    /\ setResult = SetTypeError

\* ------------------------------------------------------------------- C11
RECURSIVE AcceptedValues(_, _)
\* The values of the elements among the first n that are accepted and that
\* the write callback takes, in iteration order.
AcceptedValues(s, n) ==
    IF n = 0 THEN <<>>
    ELSE IF s[n] = "a" THEN Append(AcceptedValues(s, n - 1), 1)
    ELSE IF s[n] = "b" THEN Append(AcceptedValues(s, n - 1), 2)
    ELSE AcceptedValues(s, n - 1)

RECURSIVE FirstOccurrences(_, _)
\* The first n entries of q with repeated values dropped, order kept.
FirstOccurrences(q, n) ==
    IF n = 0 THEN <<>>
    ELSE LET prev == FirstOccurrences(q, n - 1)
         IN  IF InSeq(prev, q[n]) THEN prev ELSE Append(prev, q[n])

\* What the output container holds once the first n elements are processed.
ExpectedOutput(kind, s, n) ==
    LET vals == AcceptedValues(s, n)
    IN  IF kind = "set" THEN FirstOccurrences(vals, Len(vals)) ELSE vals

\* The line errors of r that are per-element errors.
ItemErrorsIn(r) == SelectSeq(LineErrorsOf(r), LAMBDA e : e.type = "item_error")

\* C11: in both drivers the elements reach the item validator in the host
\* iterator's order, the accepted values are written to the output in that
\* order, and the recorded Line Errors are in the order their elements were
\* met, each carrying its element's index.
C11_OrderPreserved ==
    /\ validated = [k \in 1 .. Len(validated) |-> k - 1]
    /\ Len(validated) <= Len(items)
    /\ output = ExpectedOutput(container, items, Len(validated))
    /\ (~checks.fail_fast /\ ~finishCalled)
          => checks.errors = ItemErrorsUpTo(items, Len(validated))
    /\ (~checks.fail_fast /\ finishCalled)
          => ItemErrorsIn(result) = ItemErrorsUpTo(items, Len(validated))

C11_Witness ==
    /\ container = "vec" /\ ~checks.fail_fast /\ finishCalled
    /\ Len(output) = 2 /\ output[1] = 2 /\ output[2] = 1
    /\ ItemErrorsIn(result) = <<ItemErrorAt(1)>>

\* ------------------------------------------------------------------- C12
\* The checks object as the caller built it, before the driver ran.
FreshChecks(c) ==
    NewChecks(c.fail_fast, c.min_length, c.max_length, c.max_input_length)

\* C12: when every item the host iterator yields is a success,
\* validate_fallible_iterator ends with the result, the output contents and
\* the checks state that validate_infallible_iterator ends with on the same
\* elements, item validator, checks configuration and output container.
\* (InfallibleRun is that driver as a function; the runs of the infallible
\* driver itself are held to it as well.)
C12_FallibleMatchesInfallible ==
    (pc = "done" /\ IterFailures(items) = {})
        => [checks |-> checks, out |-> output, res |-> result] =
           InfallibleRun(FreshChecks(checks), container, <<>>, items, 0)

C12_Witness ==
    /\ pc = "done" /\ driver = "fallible" /\ IterFailures(items) = {}
    /\ Len(items) = MaxLen /\ ~checks.fail_fast
    /\ Len(output) = 1 /\ Len(LineErrorsOf(result)) = 2

\* ------------------------------------------------------------------- C15
\* Positions (1-based) of the elements on which the item validator fails
\* with an error that is neither line errors nor an omission.
Fatals(s) == {i \in 1 .. Len(s) : s[i] = "fatal"}

\* C15: when the item validator returns a fatal error for an element (the
\* loop having got that far), filter_validation_result hands that same error
\* back for either fail_fast setting and records nothing, and the driver
\* stops at that element.
C15_FatalPropagates ==
    (/\ pc = "done" /\ Fatals(items) # {}
     /\ RunsToCompletion(SubSeq(items, 1, Min(Fatals(items)) - 1), checks.fail_fast))
        => LET i == Min(Fatals(items))
           IN  /\ result = ErrInternal("validator")
               /\ checks.errors = ItemErrorsUpTo(items, i - 1)
               /\ checks.input_length = i
               /\ Len(validated) = i
               /\ ~finishCalled

C15_Witness ==
    /\ pc = "done" /\ Fatals(items) # {} /\ ~checks.fail_fast
    /\ Min(Fatals(items)) = 2 /\ items[1] = "bad" /\ Len(items) = MaxLen
    /\ result = ErrInternal("validator")
    /\ Len(checks.errors) = 1

\* ------------------------------------------------------------------- C16
\* C16: a loop pass over an element the item validator omits leaves the
\* error aggregate, the stored output length and the output container as
\* they were and goes on to the next element, for either fail_fast setting.
C16_OmitLeavesNoTrace ==
    [][(pc = "loop" /\ idx < Len(items) /\ items[idx + 1] = "omit")
          => /\ pc' = "loop" /\ idx' = idx + 1
             /\ result' = NoResult
             /\ output' = output
             /\ checks'.errors = checks.errors
             /\ checks'.output_length = checks.output_length]_vars

C16_Witness ==
    /\ checks.fail_fast /\ pc = "loop"
    /\ idx = 2 /\ items[1] = "a" /\ items[2] = "omit"
    /\ Len(validated) = 2
    /\ output = <<1>> /\ checks.output_length = 1 /\ checks.errors = <<>>

\* ------------------------------------------------------------------- C17
\* C17: the Set validator compares the raw length with min_items and then
\* with max_items before any element is validated: on a violated bound the
\* item validator is not called and no set is built, and when both bounds
\* are violated the too-short error is the one returned.
C17_SetLengthBeforeItems ==
    (entry # "none" /\ ViewOf(self, input, entry).ok)
        => LET n == Len(input.elems)
               short == self.min_items # None /\ n < self.min_items
               long == self.max_items # None /\ n > self.max_items
           IN  (short \/ long)
                  => /\ setResult.calls = 0
                     /\ setResult.tag = "LineErrors" /\ setResult.out = {}
                     /\ setResult.errs =
                          <<IF short
                            THEN SetLineError("set_too_short", "min_length", self.min_items)
                            ELSE SetLineError("set_too_long", "max_length", self.max_items)>>

C17_Witness ==
    /\ entry # "none" /\ ViewOf(self, input, entry).ok
    /\ self.item_validator = "int"
    /\ self.min_items # None /\ self.max_items # None
    /\ Len(input.elems) < self.min_items /\ Len(input.elems) > self.max_items
    /\ setResult.errs[1].type = "set_too_short" /\ setResult.calls = 0

\* ------------------------------------------------------------------- C18
\* C18: with fail_fast = true, once a rejected element has been validated
\* the driver has stopped: that element is the last one validated, nothing
\* was written after it, finish was not called and the failure returned is
\* that element's Line Error alone (no too-short error).
C18_FailFastAborts ==
    \A k \in 1 .. Len(validated) :
        (checks.fail_fast /\ items[k] = "bad")
            => /\ pc = "done"
               /\ Len(validated) = k
               /\ output = ExpectedOutput(container, items, k - 1)
               /\ ~finishCalled
               /\ result = ErrLineErrors(<<ItemErrorAt(k - 1)>>)

C18_Witness ==
    /\ checks.fail_fast /\ pc = "done"
    /\ Len(items) = MaxLen /\ items[1] = "a" /\ items[2] = "bad" /\ items[3] = "b"
    /\ checks.min_length = 2
    /\ Len(validated) = 2 /\ output = <<1>>

\* ------------------------------------------------------------------- C20
\* How many elements were fully processed before the driver returned.
ProcessedBefore ==
    IF finishCalled THEN Len(items)
    ELSE IF result = ErrInternal("iterator") THEN Len(validated)
    ELSE Len(validated) - 1

\* C20: when a driver returns a failure, the output container holds exactly
\* the accepted values of the elements processed before it stopped; nothing
\* written is taken back.
C20_NoRollback ==
    (pc = "done" /\ IsErr(result))
        => /\ output = ExpectedOutput(container, items, ProcessedBefore)
           /\ Len(output) = checks.output_length

C20_Witness ==
    /\ pc = "done" /\ result = ErrInternal("write")
    /\ Len(output) = 2 /\ Len(items) = MaxLen

\* C14: finish returns success exactly when no error was recorded during the
\* iteration (by filter_validation_result or by add_error) and the last
\* reported output length is at least min_length; otherwise it returns every
\* recorded error in recording order, the too-short error, when one applies,
\* last.
C14_FinishReportsRecorded ==
    hist.op = "finish" =>
        LET short == hist.lastLen < checks.min_length
            last == IF short
                    THEN <<LineError("too_short", checks.min_length, hist.lastLen)>>
                    ELSE <<>>
        IN  /\ (hist.ret = OkUnit) <=> (hist.log = <<>> /\ ~short)
            /\ (hist.ret # OkUnit) => (hist.ret = ErrLineErrors(hist.log \o last))

\* finish ran after a rejection and a structural error were recorded and with
\* too few outputs reported.
C14_Witness ==
    /\ hist.op = "finish" /\ Len(hist.log) = 2
    /\ hist.log[1].type = "item_error" /\ hist.log[2].type = "structural"
    /\ hist.lastLen < checks.min_length
    /\ Len(hist.ret.errs) = 3

\* C19: at every moment of a checks object's life its input count is the
\* number of filter_validation_result calls made so far, whatever each call
\* returned, and its output length is the argument of the latest
\* check_output_length call, 0 when there was none.
C19_CountersTrackCalls ==
    /\ checks.input_length = hist.calls
    /\ checks.output_length = hist.lastLen

\* Two filter calls, one a recorded rejection and the latest a propagated fatal
\* error, around a report of two outputs.
C19_Witness ==
    /\ hist.calls = 2 /\ hist.lastLen = 2 /\ hist.log # <<>>
    /\ hist.op = "filter" /\ hist.arg.tag = "InternalErr" /\ IsErr(hist.ret)

\* The pairs of the validate calls in progress.
Active == {Pair(stack[i].obj) : i \in DOMAIN stack}

\* C13: the guard holds a (validator, input) pair exactly while a validate
\* call on that pair is in progress: once the outermost call has returned,
\* with a value or with an error, the guard is as it was before it; no pair is
\* ever in progress twice, and a call on a pair in progress has answered with
\* the recursive-input error.
C13_GuardTracksActive ==
    /\ guard = Active
    /\ \A i, j \in DOMAIN stack : stack[i].obj = stack[j].obj => i = j
    /\ gresult # NoResult => (stack = <<>> /\ guard = {})
    /\ \A i \in DOMAIN stack :
          LET f == stack[i]
          IN  (/\ f.idx >= 1
               /\ \E j \in 1 .. i : stack[j].obj = heap[f.obj][f.idx])
                  => f.got = RecursionError

\* Two containers holding each other: the walk came back with the
\* recursive-input error found two levels down, and the guard is empty again.
C13_Witness ==
    /\ root = 1 /\ heap[1][1] = 2 /\ heap[2][1] = 1
    /\ gresult.tag = "LineErrors"
    /\ gresult.errs[1].type = "recursion_loop" /\ gresult.errs[1].loc = <<0, 0>>
    /\ guard = {}

====
